---- MODULE Spec2Model ----
(***************************************************************************)
(* Model of GammaRayAnalyzer (src/src/analyzer.rs): the measurement        *)
(* collection, the optional quantum gravity model, the sensitivity         *)
(* threshold, and the three analyses computed from them.                   *)
(*                                                                         *)
(* Every number of the program is an f64.  The model keeps IEEE 754 binary *)
(* arithmetic (round to nearest, ties to even; gradual underflow; overflow *)
(* to infinity; signed zero; NaN) but in a narrower format: MantBits       *)
(* significand bits instead of 53 and a largest exponent ExpMax instead of *)
(* 1023.  A value is a record [k, s, m, e]:                                *)
(*    k = "fin": (-1)^s * m * 2^e, with m < 2^MantBits, e in QMin..QMax,   *)
(*               and m >= 2^(MantBits-1) unless e = QMin (subnormal, zero) *)
(*    k = "inf": (-1)^s * infinity      k = "nan": not a number            *)
(* The representation is canonical, so record equality is bit equality.    *)
(***************************************************************************)
EXTENDS Integers, Sequences, FiniteSets, TLC

\* ------------------------------------------------------------------------
\* Bounds of the model
\* ------------------------------------------------------------------------
MantBits == 4
ExpMax == 63
MaxMeasurements == 2

\* ------------------------------------------------------------------------
\* f64, narrowed.  The operations are functions, so that their arguments are
\* values when the body reads them.
\* ------------------------------------------------------------------------
QMax == ExpMax - (MantBits - 1)
QMin == (1 - ExpMax) - (MantBits - 1)

Bit == {0, 1}
F64 == [k : {"fin", "inf", "nan"}, s : Bit, m : Nat, e : Int]

Pow2[n \in Int] == IF n <= 0 THEN 1 ELSE 2 * Pow2[n - 1]

BitLen[n \in Nat] == IF n = 0 THEN 0 ELSE 1 + BitLen[n \div 2]

Max(a, b) == IF a >= b THEN a ELSE b
Min(a, b) == IF a <= b THEN a ELSE b

NaN == [k |-> "nan", s |-> 0, m |-> 0, e |-> 0]
Inf(s) == [k |-> "inf", s |-> s, m |-> 0, e |-> 0]
Zero(s) == [k |-> "fin", s |-> s, m |-> 0, e |-> QMin]
Fin(s, m, e) == [k |-> "fin", s |-> s, m |-> m, e |-> e]

IsNaN(x) == x.k = "nan"
IsInf(x) == x.k = "inf"
IsFinite(x) == x.k = "fin"
IsZero(x) == x.k = "fin" /\ x.m = 0

\* A rounded significand q at exponent e: a carry out of the significand moves
\* to the next exponent, and an exponent above QMax is an overflow.
RoundFinish[s \in Bit, q \in Nat, e \in Int] ==
    IF q = 0 THEN Zero(s)
    ELSE IF q = Pow2[MantBits]
         THEN (IF e + 1 > QMax THEN Inf(s) ELSE Fin(s, Pow2[MantBits - 1], e + 1))
    ELSE IF e > QMax THEN Inf(s)
    ELSE Fin(s, q, e)

\* Round to nearest, ties to even: q units kept, r of unit dropped.
RoundNearest[s \in Bit, q \in Nat, r \in Nat, unit \in Nat, sticky \in BOOLEAN, e \in Int] ==
    IF \/ 2 * r > unit
       \/ 2 * r = unit /\ sticky
       \/ 2 * r = unit /\ ~sticky /\ q % 2 = 1
    THEN RoundFinish[s, q + 1, e]
    ELSE RoundFinish[s, q, e]

\* M * 2^E with its want lowest bits dropped (want > 0) or -want zero bits
\* appended (want <= 0).
RoundAt[s \in Bit, M \in Nat, E \in Int, sticky \in BOOLEAN, bits \in Nat, want \in Int] ==
    IF want <= 0 THEN RoundFinish[s, M * Pow2[-want], E + want]
    ELSE IF want > bits + 1 THEN Zero(s)
    ELSE RoundNearest[s, M \div Pow2[want], M % Pow2[want], Pow2[want], sticky, E + want]

RoundBits[s \in Bit, M \in Nat, E \in Int, sticky \in BOOLEAN, bits \in Nat] ==
    RoundAt[s, M, E, sticky, bits, Max(bits - MantBits, QMin - E)]

\* The value (-1)^s * (M + sticky) * 2^E, M >= 0 an integer and sticky a
\* nonzero amount below one unit of M, rounded to the nearest value of the
\* format, ties to even.
RoundPack[s \in Bit, M \in Nat, E \in Int, sticky \in BOOLEAN] ==
    IF M = 0 THEN Zero(s) ELSE RoundBits[s, M, E, sticky, BitLen[M]]

\* An integer literal of the source (100.0, 3.0, ...) as an f64.
FromInt(n) == IF n >= 0 THEN RoundPack[0, n, 0, FALSE] ELSE RoundPack[1, -n, 0, FALSE]

FNeg[x \in F64] == IF IsNaN(x) THEN NaN ELSE [x EXCEPT !.s = 1 - x.s]

\* f64::abs
FAbs[x \in F64] == IF IsNaN(x) THEN NaN ELSE [x EXCEPT !.s = 0]

Xor(a, b) == IF a = b THEN 0 ELSE 1

\* x * y
FMul[x \in F64, y \in F64] ==
    IF IsNaN(x) \/ IsNaN(y) THEN NaN
    ELSE IF IsInf(x) \/ IsInf(y)
         THEN IF IsZero(x) \/ IsZero(y) THEN NaN ELSE Inf(Xor(x.s, y.s))
    ELSE RoundPack[Xor(x.s, y.s), x.m * y.m, x.e + y.e, FALSE]

\* The quotient num / den of two integers at exponent E.
DivPack[s \in Bit, num \in Nat, den \in Nat, E \in Int] ==
    RoundPack[s, num \div den, E, num % den # 0]

\* x / y
FDiv[x \in F64, y \in F64] ==
    IF IsNaN(x) \/ IsNaN(y) THEN NaN
    ELSE IF IsInf(x) THEN (IF IsInf(y) THEN NaN ELSE Inf(Xor(x.s, y.s)))
    ELSE IF IsInf(y) THEN Zero(Xor(x.s, y.s))
    ELSE IF IsZero(y) THEN (IF IsZero(x) THEN NaN ELSE Inf(Xor(x.s, y.s)))
    ELSE IF IsZero(x) THEN Zero(Xor(x.s, y.s))
    ELSE DivPack[Xor(x.s, y.s), x.m * Pow2[2 * MantBits + 2], y.m,
                 x.e - y.e - (2 * MantBits + 2)]

\* The signed integer t at exponent E.
SignedPack[t \in Int, E \in Int] ==
    IF t = 0 THEN Zero(0)
    ELSE IF t > 0 THEN RoundPack[0, t, E, FALSE]
    ELSE RoundPack[1, -t, E, FALSE]

Signed(x, m) == IF x.s = 1 THEN -m ELSE m

\* x + y.  An operand more than MantBits + 2 binary places below the other
\* is below a quarter of its last place and rounds away.
FAdd[x \in F64, y \in F64] ==
    IF IsNaN(x) \/ IsNaN(y) THEN NaN
    ELSE IF IsInf(x) THEN (IF IsInf(y) /\ y.s # x.s THEN NaN ELSE x)
    ELSE IF IsInf(y) THEN y
    ELSE IF IsZero(x) /\ IsZero(y) THEN Zero(IF x.s = 1 /\ y.s = 1 THEN 1 ELSE 0)
    ELSE IF IsZero(x) THEN y
    ELSE IF IsZero(y) THEN x
    ELSE IF x.e - y.e > MantBits + 2 THEN x
    ELSE IF y.e - x.e > MantBits + 2 THEN y
    ELSE IF x.e >= y.e
         THEN SignedPack[Signed(x, x.m * Pow2[x.e - y.e]) + Signed(y, y.m), y.e]
    ELSE SignedPack[Signed(x, x.m) + Signed(y, y.m * Pow2[y.e - x.e]), x.e]

\* x - y
FSub[x \in F64, y \in F64] == FAdd[x, FNeg[y]]

\* Magnitude order of two finite or infinite values.
MagLess(x, y) ==
    IF IsInf(x) THEN FALSE
    ELSE IF IsInf(y) THEN TRUE
    ELSE x.e < y.e \/ (x.e = y.e /\ x.m < y.m)

\* x < y : false when either side is NaN, and -0 is not below +0.
FLt[x \in F64, y \in F64] ==
    IF IsNaN(x) \/ IsNaN(y) THEN FALSE
    ELSE IF IsZero(x) /\ IsZero(y) THEN FALSE
    ELSE IF x.s # y.s THEN x.s = 1
    ELSE IF x.s = 0 THEN MagLess(x, y)
    ELSE MagLess(y, x)

\* x > y
FGt[x \in F64, y \in F64] == FLt[y, x]

\* x >= y
FGe[x \in F64, y \in F64] ==
    IF IsNaN(x) \/ IsNaN(y) THEN FALSE ELSE ~FLt[x, y]

\* x == y of f64 (NaN differs from itself, -0 equals +0)
FEq[x \in F64, y \in F64] ==
    IF IsNaN(x) \/ IsNaN(y) THEN FALSE
    ELSE IF IsZero(x) /\ IsZero(y) THEN TRUE
    ELSE x = y

\* Fixed point with 14 fraction bits, used by FExp only: 1 and ln 2.
FixBits == 14
FixOne == 16384
FixLn2 == 11357

\* sum_{k >= n} (sgn r)^k / k! scaled by FixOne, given term = r^n / n!
ExpSeries[term \in Nat, r \in Nat, n \in Nat, neg \in BOOLEAN] ==
    IF term = 0 \/ n > 12 THEN 0
    ELSE (IF neg /\ n % 2 = 1 THEN -term ELSE term)
         + ExpSeries[(term * r) \div (FixOne * (n + 1)), r, n + 1, neg]

\* exp(+-X / FixOne) for the fixed-point magnitude X
ExpFixed[X \in Nat, neg \in BOOLEAN] ==
    IF neg
    THEN RoundPack[0, ExpSeries[FixOne, X % FixLn2, 0, TRUE], -FixBits - (X \div FixLn2), FALSE]
    ELSE RoundPack[0, ExpSeries[FixOne, X % FixLn2, 0, FALSE], (X \div FixLn2) - FixBits, FALSE]

\* f64::exp.  |x| >= 256 is beyond the exponent range of the format (as 710
\* is beyond that of binary64), and |x| < 2^-(MantBits+2) is within half a
\* last place of 1.
FExp[x \in F64] ==
    IF IsNaN(x) THEN NaN
    ELSE IF IsInf(x) THEN (IF x.s = 1 THEN Zero(0) ELSE Inf(0))
    ELSE IF IsZero(x) THEN FromInt(1)
    ELSE IF ~MagLess(x, FromInt(256)) THEN (IF x.s = 1 THEN Zero(0) ELSE Inf(0))
    ELSE IF MagLess(x, RoundPack[0, 1, -(MantBits + 2), FALSE]) THEN FromInt(1)
    ELSE IF x.e + FixBits >= 0
         THEN ExpFixed[x.m * Pow2[x.e + FixBits], x.s = 1]
    ELSE ExpFixed[x.m \div Pow2[-(x.e + FixBits)], x.s = 1]

\* A decimal literal of the source that is no integer, given as M * 2^E
\* truncated from its binary expansion (the rest is the sticky part).
FromBinary(M, E) == RoundPack[0, M, E, TRUE]

\* ------------------------------------------------------------------------
\* Types of analyzer.rs
\* ------------------------------------------------------------------------
None == << >>
Some(v) == << v >>
IsSome(o) == Len(o) = 1
Unwrap(o) == o[1]

TimingData(energy, arrival_time, error) ==
    [energy |-> energy, arrival_time |-> arrival_time, error |-> error]

QuantumGravityModel(planck_length, quantum_gravity_effect, energy_scale) ==
    [planck_length |-> planck_length,
     quantum_gravity_effect |-> quantum_gravity_effect,
     energy_scale |-> energy_scale]

LightSpeedTestResult(is_valid, confidence_level, deviation_estimate, chi_squared, p_value, anomalies_detected) ==
    [is_valid |-> is_valid, confidence_level |-> confidence_level,
     deviation_estimate |-> deviation_estimate, chi_squared |-> chi_squared,
     p_value |-> p_value, anomalies_detected |-> anomalies_detected]

AnomalyDetectionResult(energy, measured_time, expected_time, deviation, significance) ==
    [energy |-> energy, measured_time |-> measured_time,
     expected_time |-> expected_time, deviation |-> deviation,
     significance |-> significance]

GammaRayAnalyzer(ms, threshold, model) ==
    [measurements |-> ms, sensitivity_threshold |-> threshold,
     quantum_gravity_model |-> model]

TimingDataT == [energy : F64, arrival_time : F64, error : F64]
AnomalyT == [energy : F64, measured_time : F64, expected_time : F64,
             deviation : F64, significance : F64]
SumsT == [chi_squared : F64, total_weighted_deviation : F64, total_weight : F64]

\* ------------------------------------------------------------------------
\* Literals of the source
\* ------------------------------------------------------------------------
F0 == Zero(0)
F1 == FromInt(1)
F2 == FromInt(2)
SPEED_OF_LIGHT == FromInt(299792458)
ThreeSigma == FromInt(3)
\* 0.05 = 1/20, and 20 is exact in the format
ValidityCutoff == FDiv[F1, FromInt(20)]
\* 1e-12
DefaultSensitivity == FromBinary(4611686, -62)

\* ------------------------------------------------------------------------
\* The analyses (pure functions of the analyzer)
\* ------------------------------------------------------------------------
\* The delay subtracted for one measurement (analyzer.rs 126-132).
time_delay(self, measurement) ==
    IF IsSome(self.quantum_gravity_model)
    THEN FDiv[FMul[FMul[Unwrap(self.quantum_gravity_model).quantum_gravity_effect,
                        measurement.energy],
                   measurement.energy],
              FMul[SPEED_OF_LIGHT, SPEED_OF_LIGHT]]
    ELSE F0

\* calculate_expected_arrivals iterating the measurements in reverse.
calculate_expected_arrivals_rev(self) ==
    [i \in 1..Len(self.measurements) |->
        << self.measurements[Len(self.measurements) + 1 - i].energy,
           FSub[self.measurements[Len(self.measurements) + 1 - i].arrival_time,
                time_delay(self, self.measurements[Len(self.measurements) + 1 - i])] >>]

calculate_expected_arrivals(self) ==
    [i \in 1..Len(self.measurements) |->
        << self.measurements[i].energy,
           FSub[self.measurements[i].arrival_time,
                time_delay(self, self.measurements[i])] >>]

\* IsAnomalous with >= for >.
IsAnomalous_ge(significance, cutoff) == FGe[significance, cutoff]

\* significance > 3.0 (analyzer.rs 156), 3.0 being cutoff
IsAnomalous(significance, cutoff) == FGt[significance, cutoff]

\* The record pushed for a flagged measurement (analyzer.rs 157-163).
AnomalyOf[measurement \in TimingDataT, expected_time \in F64, deviation \in F64, significance \in F64] ==
    AnomalyDetectionResult(measurement.energy, measurement.arrival_time,
                           expected_time, deviation, significance)

\* significance = deviation.abs() / measurement.error (analyzer.rs 154)
SignificanceOf[measurement \in TimingDataT, deviation \in F64] ==
    FDiv[FAbs[deviation], measurement.error]

\* One pass of the loop body of detect_anomalies (analyzer.rs 152-164).
DetectStep[anomalies \in Seq(AnomalyT), measurement \in TimingDataT, expected_time \in F64, cutoff \in F64] ==
    IF IsAnomalous(SignificanceOf[measurement,
                                  FSub[measurement.arrival_time, expected_time]],
                   cutoff)
    THEN Append(anomalies,
                AnomalyOf[measurement, expected_time,
                          FSub[measurement.arrival_time, expected_time],
                          SignificanceOf[measurement,
                                         FSub[measurement.arrival_time, expected_time]]])
    ELSE anomalies

\* The loop of detect_anomalies (analyzer.rs 147-168) with the literal of its
\* comparison as cutoff.
DetectLoop(self, cutoff) ==
    LET expected_times == calculate_expected_arrivals(self)
        anomalies[i \in 0..Len(self.measurements)] ==
            IF i = 0 THEN << >>
            ELSE IF i <= Len(expected_times)
                 THEN DetectStep[anomalies[i - 1], self.measurements[i],
                                 expected_times[i][2], cutoff]
            ELSE anomalies[i - 1]
    IN  anomalies[Len(self.measurements)]

\* detect_anomalies with the configured sensitivity as its cut-off.
detect_anomalies_sens(self) ==
    IF Len(self.measurements) = 0 THEN << >>
    ELSE DetectLoop(self, self.sensitivity_threshold)

detect_anomalies(self) ==
    IF Len(self.measurements) = 0 THEN << >>
    ELSE DetectLoop(self, ThreeSigma)

\* weight = 1.0 / (error * error) (analyzer.rs 69)
Weight(measurement) == FDiv[F1, FMul[measurement.error, measurement.error]]

\* The measurements the aggregation loop of test_light_speed_constancy adds to
\* its three sums (analyzer.rs 65-66): every index that has an expected time.
AggregatedIndices(self) ==
    {i \in 1..Len(self.measurements) : i <= Len(calculate_expected_arrivals(self))}

\* The three sums after one more term (analyzer.rs 71-73).
AddTerm[acc \in SumsT, weight \in F64, deviation \in F64] ==
    [chi_squared |-> FAdd[acc.chi_squared, FMul[FMul[weight, deviation], deviation]],
     total_weighted_deviation |->
         FAdd[acc.total_weighted_deviation, FMul[weight, deviation]],
     total_weight |-> FAdd[acc.total_weight, weight]]

\* One pass of the loop body of test_light_speed_constancy (analyzer.rs 67-73).
AggregateStep[acc \in SumsT, measurement \in TimingDataT, expected_time \in F64] ==
    AddTerm[acc, Weight(measurement), FSub[measurement.arrival_time, expected_time]]

\* The loop of analyzer.rs 61-75.
Aggregate(self) ==
    LET expected_times == calculate_expected_arrivals(self)
        sums[i \in 0..Len(self.measurements)] ==
            IF i = 0
            THEN [chi_squared |-> F0, total_weighted_deviation |-> F0, total_weight |-> F0]
            ELSE IF i <= Len(expected_times)
                 THEN AggregateStep[sums[i - 1], self.measurements[i], expected_times[i][2]]
            ELSE sums[i - 1]
    IN  sums[Len(self.measurements)]

\* usize::saturating_sub(1)
saturating_sub1(n) == IF n >= 1 THEN n - 1 ELSE 0

\* analyzer.rs 78-90
PValue[degrees_of_freedom \in Nat, chi_squared \in F64] ==
    IF degrees_of_freedom > 0
    THEN IF FGt[chi_squared, F0]
         THEN FSub[F1, FExp[FDiv[FNeg[chi_squared], F2]]]
         ELSE F1
    ELSE F1

\* p_value > 0.05 (analyzer.rs 104)
IsValid(p_value) == FGt[p_value, ValidityCutoff]

\* analyzer.rs 92-110, from the sums, the p-value and the anomalies
Compose[sums \in SumsT, p_value \in F64, anomalies \in Seq(AnomalyT)] ==
    LightSpeedTestResult(IsValid(p_value),
                         FSub[F1, p_value],
                         IF FGt[sums.total_weight, F0]
                         THEN Some(FDiv[sums.total_weighted_deviation, sums.total_weight])
                         ELSE None,
                         sums.chi_squared, p_value, Len(anomalies))

\* analyzer.rs 77-110, from the sums
Evaluate[sums \in SumsT, degrees_of_freedom \in Nat, anomalies \in Seq(AnomalyT)] ==
    Compose[sums, PValue[degrees_of_freedom, sums.chi_squared], anomalies]

\* test_light_speed_constancy with the empty result's confidence taken as
\* 1 - 0 instead of 0.
test_light_speed_constancy_conf(self) ==
    IF Len(self.measurements) = 0
    THEN LightSpeedTestResult(TRUE, F1, None, F0, F1, 0)
    ELSE Evaluate[Aggregate(self), saturating_sub1(Len(self.measurements)),
                  detect_anomalies(self)]

\* test_light_speed_constancy without its call of detect_anomalies.
test_light_speed_constancy_nocount(self) ==
    IF Len(self.measurements) = 0
    THEN LightSpeedTestResult(TRUE, F0, None, F0, F1, 0)
    ELSE Evaluate[Aggregate(self), saturating_sub1(Len(self.measurements)), << >>]

test_light_speed_constancy(self) ==
    IF Len(self.measurements) = 0
    THEN LightSpeedTestResult(TRUE, F0, None, F0, F1, 0)
    ELSE Evaluate[Aggregate(self), saturating_sub1(Len(self.measurements)),
                  detect_anomalies(self)]

\* ------------------------------------------------------------------------
\* Inputs
\* ------------------------------------------------------------------------
\* The smallest positive value of the format (5e-324 in binary64).
MIN_POSITIVE == Fin(0, 1, QMin)

Energies == {F1, F2}
ArrivalTimes == {F1, FromInt(64)}
Errors == {F1, F0, FromInt(-1), MIN_POSITIVE}

Thresholds == {FromInt(5)}

\* The model the command line enables (cli.rs 69-73), and a model whose delay
\* for energy 1 is 3 s.
CliModel == QuantumGravityModel(FromBinary(5630938, -138), FromBinary(6189700, -89),
                                FromBinary(4547473, 41))
TripleModel == QuantumGravityModel(FromBinary(5630938, -138),
                                   FMul[FromInt(3), FMul[SPEED_OF_LIGHT, SPEED_OF_LIGHT]],
                                   FromBinary(4547473, 41))
Models == {CliModel, TripleModel}

\* ------------------------------------------------------------------------
\* State
\* ------------------------------------------------------------------------
VARIABLES measurements, sensitivity_threshold, quantum_gravity_model, added, out

vars == << measurements, sensitivity_threshold, quantum_gravity_model, added, out >>

\* The analyzer as the methods see it.
Self == GammaRayAnalyzer(measurements, sensitivity_threshold, quantum_gravity_model)

\* out: the last call that returned a value, and the value, or "unit" after a
\* call that returns (); added: the arguments of the add_measurement calls so
\* far, in call order.
Returned(op, val) == [op |-> op, val |-> val]
Unit == Returned("unit", << >>)

\* GammaRayAnalyzer::new
Init ==
    /\ measurements = << >>
    /\ sensitivity_threshold = DefaultSensitivity
    /\ quantum_gravity_model = None
    /\ added = << >>
    /\ out = Unit

\* add_measurement rejecting a measurement whose error is not positive.
add_measurement_checked(energy, arrival_time, error) ==
    /\ Len(measurements) < MaxMeasurements
    /\ measurements' = IF FGt[error, F0]
                       THEN Append(measurements, TimingData(energy, arrival_time, error))
                       ELSE measurements
    /\ added' = Append(added, << energy, arrival_time, error >>)
    /\ out' = Unit
    /\ UNCHANGED << sensitivity_threshold, quantum_gravity_model >>

add_measurement(energy, arrival_time, error) ==
    /\ Len(measurements) < MaxMeasurements
    /\ measurements' = Append(measurements, TimingData(energy, arrival_time, error))
    /\ added' = Append(added, << energy, arrival_time, error >>)
    /\ out' = Unit
    /\ UNCHANGED << sensitivity_threshold, quantum_gravity_model >>

set_sensitivity_threshold(threshold) ==
    /\ sensitivity_threshold' = threshold
    /\ out' = Unit
    /\ UNCHANGED << measurements, quantum_gravity_model, added >>

enable_quantum_gravity_simulation(model) ==
    /\ quantum_gravity_model' = Some(model)
    /\ out' = Unit
    /\ UNCHANGED << measurements, sensitivity_threshold, added >>

call_test_light_speed_constancy ==
    /\ out' = Returned("test_light_speed_constancy", test_light_speed_constancy(Self))
    /\ UNCHANGED << measurements, sensitivity_threshold, quantum_gravity_model, added >>

call_calculate_expected_arrivals ==
    /\ out' = Returned("calculate_expected_arrivals", calculate_expected_arrivals(Self))
    /\ UNCHANGED << measurements, sensitivity_threshold, quantum_gravity_model, added >>

call_detect_anomalies ==
    /\ out' = Returned("detect_anomalies", detect_anomalies(Self))
    /\ UNCHANGED << measurements, sensitivity_threshold, quantum_gravity_model, added >>

AddAny == \E energy \in Energies, arrival_time \in ArrivalTimes, error \in Errors :
              add_measurement(energy, arrival_time, error)
SetAny == \E threshold \in Thresholds : set_sensitivity_threshold(threshold)
EnableAny == \E model \in Models : enable_quantum_gravity_simulation(model)

Next ==
    \/ AddAny
    \/ SetAny
    \/ EnableAny
    \/ call_test_light_speed_constancy
    \/ call_calculate_expected_arrivals
    \/ call_detect_anomalies

Spec == Init /\ [][Next]_vars

\* ------------------------------------------------------------------------
\* Properties
\* ------------------------------------------------------------------------
Tested == out.op = "test_light_speed_constancy"
Expected == out.op = "calculate_expected_arrivals"
Detected == out.op = "detect_anomalies"

Indices == 1..Len(measurements)

\* What the analyzer computes for measurement i, read off the expected
\* arrivals it returns.
ExpectedTime(i) == calculate_expected_arrivals(Self)[i][2]
Residual(i) == FSub[measurements[i].arrival_time, ExpectedTime(i)]
Significance(i) == FDiv[FAbs[Residual(i)], measurements[i].error]

\* C1: on an empty collection test_light_speed_constancy returns exactly
\* {is_valid: true, confidence_level: 0, deviation_estimate: None,
\* chi_squared: 0, p_value: 1, anomalies_detected: 0}, whatever model or
\* threshold is set, and the other two analyses return an empty sequence.
C1_EmptyCollection ==
    Len(measurements) = 0 =>
        /\ Tested => out.val = [is_valid |-> TRUE, confidence_level |-> F0,
                                deviation_estimate |-> None, chi_squared |-> F0,
                                p_value |-> F1, anomalies_detected |-> 0]
        /\ Expected => out.val = << >>
        /\ Detected => out.val = << >>

C1_Witness ==
    /\ Len(measurements) = 0
    /\ Tested
    /\ quantum_gravity_model # None
    /\ sensitivity_threshold # DefaultSensitivity

\* C2: with no model and only strictly positive errors, every expected time
\* is the arrival time, every residual is 0, chi_squared = 0, p_value = 1,
\* is_valid holds and no anomaly is counted.
C2_NoModelNoResidual ==
    (/\ quantum_gravity_model = None
     /\ \A i \in Indices : FGt[measurements[i].error, F0]) =>
        /\ Expected => \A i \in Indices : out.val[i][2] = measurements[i].arrival_time
        /\ Tested => /\ \A i \in Indices : IsZero(Residual(i))
                     /\ FEq[out.val.chi_squared, F0]
                     /\ FEq[out.val.p_value, F1]
                     /\ out.val.is_valid
                     /\ out.val.anomalies_detected = 0

\* C3: a measurement whose error is zero or negative is rejected at insertion
\* or left out of the weighted sums; none takes part with a weight 1/error^2.
C3_InvalidErrorExcluded ==
    Tested => \A i \in AggregatedIndices(Self) : FGt[measurements[i].error, F0]

\* The record detect_anomalies is to emit for measurement i when it flags it.
RecordOf(i) ==
    [energy |-> measurements[i].energy,
     measured_time |-> measurements[i].arrival_time,
     expected_time |-> ExpectedTime(i),
     deviation |-> Residual(i),
     significance |-> Significance(i)]

\* C4: detect_anomalies emits a record for measurement i iff
\* |arrival_time - expected_time| / error > 3.0; a significance of exactly 3.0
\* is not flagged; each record carries the measurement's energy, measured
\* time, expected time, residual and significance.
C4_FlaggedIffAboveThree ==
    Detected =>
        /\ \A i \in Indices :
              LET record == RecordOf(i)
              IN  /\ (\E k \in DOMAIN out.val : out.val[k] = record)
                         <=> FGt[record.significance, FromInt(3)]
                  /\ FEq[record.significance, FromInt(3)] =>
                         \A k \in DOMAIN out.val : out.val[k] # record
        /\ \A k \in DOMAIN out.val : \E i \in Indices : out.val[k] = RecordOf(i)

C4_Witness ==
    /\ Detected
    /\ \E i, j \in Indices :
          /\ FEq[Significance(i), FromInt(3)]
          /\ FGt[Significance(j), FromInt(3)]
    /\ Len(out.val) = 1

\* C5: the collection is exactly the sequence of triples passed to
\* add_measurement, in call order, unvalidated and with duplicates kept; the
\* other operations do not change it.
C5_CollectionIsCallLog ==
    /\ Len(measurements) = Len(added)
    /\ \A i \in Indices :
          /\ measurements[i].energy = added[i][1]
          /\ measurements[i].arrival_time = added[i][2]
          /\ measurements[i].error = added[i][3]

C5_Witness ==
    /\ Len(measurements) = 2
    /\ measurements[1] = measurements[2]
    /\ ~FGt[measurements[1].error, F0]
    /\ quantum_gravity_model # None
    /\ sensitivity_threshold # DefaultSensitivity

\* Record r carries measurement i.
ComesFrom(r, i) ==
    /\ r.energy = measurements[i].energy
    /\ r.measured_time = measurements[i].arrival_time

\* C6: calculate_expected_arrivals returns one pair per measurement, pair i
\* carrying measurement i's energy; the records of detect_anomalies are a
\* subsequence of the measurements in insertion order, at most one record per
\* measurement.
C6_OutputsInInsertionOrder ==
    /\ Expected =>
          /\ Len(out.val) = Len(measurements)
          /\ \A i \in Indices : out.val[i][1] = measurements[i].energy
    /\ Detected =>
          \E f \in [DOMAIN out.val -> Indices] :
              /\ \A k \in DOMAIN out.val : ComesFrom(out.val[k], f[k])
              /\ \A k, l \in DOMAIN out.val : k < l => f[k] < f[l]

C6_Witness ==
    /\ Detected
    /\ Len(out.val) = 2
    /\ out.val[1].energy # out.val[2].energy

\* C7: anomalies_detected of the result equals the length of what
\* detect_anomalies returns on the same analyzer, the empty collection
\* included.
C7_CountIsDetectorLength ==
    Tested => out.val.anomalies_detected = Len(detect_anomalies(Self))

C7_Witness ==
    /\ Tested
    /\ out.val.anomalies_detected = 1
    /\ Len(measurements) = 2

\* C8: every result has p_value and confidence_level in [0, 1], a
\* chi_squared that is a number >= 0, and anomalies_detected >= 0.
C8_ResultRanges ==
    Tested =>
        /\ FGe[out.val.p_value, F0] /\ FGe[F1, out.val.p_value]
        /\ FGe[out.val.confidence_level, F0] /\ FGe[F1, out.val.confidence_level]
        /\ FGe[out.val.chi_squared, F0]
        /\ out.val.anomalies_detected >= 0

\* C9: for a non-empty collection, with degrees_of_freedom = max(0, count - 1),
\* p_value is 1 if degrees_of_freedom = 0, 1 if chi_squared is 0, and
\* 1 - exp(-chi_squared / 2) otherwise; confidence_level = 1 - p_value;
\* is_valid iff p_value > 0.05.
C9_SignificanceFromStatistic ==
    (Tested /\ Len(measurements) > 0) =>
        /\ out.val.p_value =
              (IF Max(0, Len(measurements) - 1) = 0 THEN F1
               ELSE IF FEq[out.val.chi_squared, F0] THEN F1
               ELSE FSub[F1, FExp[FDiv[FNeg[out.val.chi_squared], F2]]])
        /\ out.val.confidence_level = FSub[F1, out.val.p_value]
        /\ out.val.is_valid <=> FGt[out.val.p_value, FDiv[FromInt(5), FromInt(100)]]

\* The analyzer with another sensitivity threshold.
WithThreshold(t) == [Self EXCEPT !.sensitivity_threshold = t]

\* C10: the sensitivity threshold has no influence: each analysis returns
\* what it returns for the same collection and model under any other
\* threshold.
C10_ThresholdIgnored ==
    \A t \in (Thresholds \cup {DefaultSensitivity}) \ {sensitivity_threshold} :
        /\ Tested => out.val = test_light_speed_constancy(WithThreshold(t))
        /\ Expected => out.val = calculate_expected_arrivals(WithThreshold(t))
        /\ Detected => out.val = detect_anomalies(WithThreshold(t))

C10_Witness ==
    /\ Detected
    /\ sensitivity_threshold = FromInt(5)
    /\ \E k \in DOMAIN out.val :
          /\ FGt[out.val[k].significance, FromInt(3)]
          /\ ~FGt[out.val[k].significance, FromInt(5)]

\* The analyzer with the arrival time of measurement i replaced by alt[i].
WithArrivalTimes(alt) ==
    [Self EXCEPT !.measurements =
        [i \in Indices |-> [measurements[i] EXCEPT !.arrival_time = alt[i]]]]

\* The indices detect_anomalies flags on analyzer self.
FlaggedIndices(self) ==
    {i \in 1..Len(self.measurements) :
        FGt[FDiv[FAbs[FSub[self.measurements[i].arrival_time,
                           calculate_expected_arrivals(self)[i][2]]],
                 self.measurements[i].error],
            FromInt(3)]}

\* The fields of a result that C11 names.
Outcome(r) == << r.chi_squared, r.p_value, r.is_valid, r.deviation_estimate,
                 r.anomalies_detected >>

\* C11: every residual equals delay(energy) = quantum_gravity_effect *
\* energy^2 / c^2 (0 with no model), so the outcome does not depend on the
\* arrival times: the same energies, errors and model with other arrival
\* times give the same chi_squared, p_value, is_valid, deviation_estimate and
\* anomalies_detected, and the same flagged indices.
C11_ArrivalTimesIrrelevant ==
    /\ Expected =>
          \A i \in Indices :
              FSub[measurements[i].arrival_time, out.val[i][2]]
                  = time_delay(Self, measurements[i])
    /\ Tested =>
          \A alt \in [Indices -> ArrivalTimes] :
              Outcome(test_light_speed_constancy(WithArrivalTimes(alt))) = Outcome(out.val)
    /\ Detected =>
          \A alt \in [Indices -> ArrivalTimes] :
              FlaggedIndices(WithArrivalTimes(alt)) = FlaggedIndices(Self)

====
